---- MODULE Spec2Model ----
(***************************************************************************)
(* PyNDN2: the pending interest table (pyndn/impl/pending_interest_table.py) *)
(* and the thread-safe face (pyndn/threadsafe_face.py) that hands every     *)
(* public operation to the asyncio loop thread.                             *)
(*                                                                          *)
(* An Entry object is identified by its reference: its position in the      *)
(* sequence `entry` of all Entry objects ever constructed.  `table` is      *)
(* PendingInterestTable._table, a list of references.                       *)
(***************************************************************************)
EXTENDS Integers, Sequences, FiniteSets, TLC

VARIABLES
  table,      \* PendingInterestTable._table: sequence of Entry references
  entry,      \* every Entry constructed so far: reference -> its fields
  last        \* the last call of a table operation made by the table's own
              \* caller in SpecTable: its name, its arguments and what it gave
              \* back (for an extraction, the caller's `entries` list)

\* The thread-safe face, its node and the asyncio loop.
VARIABLES
  lastEntryId,     \* Node._lastEntryId, the counter behind getNextEntryId()
  pc,              \* per application thread: where it is in a public method
  ready,           \* the loop's queue of callbacks handed off and not yet run
  timers,          \* entries with a one-shot call_later not yet fired
  onDataCalls,     \* per entry: invocations of its onData
  onTimeoutCalls,  \* per entry: invocations of its onTimeout
  fate,            \* per entry: what took it out of the table
  submitted,       \* per thread: hand-offs it has made
  executed,        \* per thread: number of its last hand-off run by the loop
  earlyCancelDone, \* cancellations that were queued behind the still queued
                   \* submission of their id and have now been run: the id,
                   \* and whether another thread than the submitter cancelled
  others           \* calls made of the six methods that do not touch the table

\* The periodic services of the thread-safe face and the state of the loop.
VARIABLES
  loop,            \* self._loop: "loop", or "None" once it has been cleared
  stopWhenTest,    \* self._stopWhenTest: what the test does when called
  scheduled,       \* per service: its invocations scheduled and not yet run
  running,         \* the asyncio loop is running (run_forever, until stop())
  registered,      \* the test given to the latest call of stopWhen
  shutdownCalled,  \* shutdown() has been called
  tick             \* the latest run of a periodic service and what it did

tvars == <<table, entry, last>>

svars == <<loop, stopWhenTest, scheduled, running, registered, shutdownCalled,
           tick>>

fvars == <<lastEntryId, pc, ready, timers, onDataCalls, onTimeoutCalls, fate,
           submitted, executed, earlyCancelDone, others, svars>>

vars == <<table, entry, last, lastEntryId, pc, ready, timers, onDataCalls,
          onTimeoutCalls, fate, submitted, executed, earlyCancelDone, others,
          svars>>

(***************************************************************************)
(* Bounds and input sets                                                    *)
(***************************************************************************)
\* Entry objects constructed in one behaviour of the table specification.
MaxEntries == 3

\* pendingInterestId values given to add (the table does not check that
\* they are unique).
TableIds == {1, 2}

\* onTimeout arguments given to add in the table specification (no table
\* operation reads the field).
TableOnTimeout == {TRUE}

\* Hand-offs made in one behaviour of the face specification.
MaxHandoffs == 2

\* Application threads calling the public methods.
Threads == {"A", "B"}

\* Hand-offs of the six methods that do not touch the table, among them.
MaxOther == 1

\* Interest names expressed through the face, and names of arriving data.
FaceNames == { <<"a", "b">> }

DataNames == { <<"a", "b", "d">>, <<"a", "c">> }

\* Names: sequences of components.
Names == { <<"a", "b">>, <<"a", "c">>, <<"a", "b", "d">> }

(***************************************************************************)
(* Interest.matchesName: the interest's name is a prefix of the name        *)
(* (selectors are not modelled).                                            *)
(***************************************************************************)
matchesName(interest, name) ==
  /\ Len(interest) <= Len(name)
  /\ \A k \in 1..Len(interest) : interest[k] = name[k]

(***************************************************************************)
(* PendingInterestTable.Entry                                               *)
(***************************************************************************)
\* Entry.__init__; onTimeout is TRUE when a function object was given and
\* FALSE when it is None.
Entry(pendingInterestId, interest, onTimeout) ==
  [ pendingInterestId |-> pendingInterestId,
    interest          |-> interest,
    onTimeout         |-> onTimeout,
    isRemoved         |-> FALSE ]

setIsRemoved(e) == [e EXCEPT !.isRemoved = TRUE]

getIsRemoved(e) == e.isRemoved

(***************************************************************************)
(* Python list primitives, with 0-based index i                             *)
(***************************************************************************)
\* list.pop(i) / del list[i]
pop(list, i) ==
  [k \in 1..(Len(list) - 1) |-> IF k <= i THEN list[k] ELSE list[k + 1]]

\* x in list
contains(list, x) == \E k \in 1..Len(list) : list[k] = x

\* list.index(x), 0-based, for x in list
index(list, x) ==
  (CHOOSE k \in 1..Len(list) :
     list[k] = x /\ \A j \in 1..(k - 1) : list[j] # x) - 1

(***************************************************************************)
(* PendingInterestTable operations on a heap h = [table, entry]             *)
(***************************************************************************)
Heap(t, e) == [table |-> t, entry |-> e]

\* add: construct the Entry and append it; the new reference is returned.
add(h, pendingInterestId, interestCopy, onTimeout) ==
  Heap(Append(h.table, Len(h.entry) + 1),
       Append(h.entry, Entry(pendingInterestId, interestCopy, onTimeout)))

\* extractBody with `i -= 1` repeated inside the branch of a match: the entry
\* before a match is skipped.
extractBodySkip(h, name, entries, i) ==
  LET pendingInterest == h.table[i + 1] IN
  IF matchesName(h.entry[pendingInterest].interest, name)
  THEN [ h       |-> Heap(pop(h.table, i),
                          [h.entry EXCEPT ![pendingInterest] = setIsRemoved(@)]),
         entries |-> Append(entries, pendingInterest),
         i       |-> i - 2 ]
  ELSE [ h |-> h, entries |-> entries, i |-> i - 1 ]

\* extractBody with entries.insert(0, pendingInterest) for entries.append.
extractBodyInsertFront(h, name, entries, i) ==
  LET pendingInterest == h.table[i + 1] IN
  IF matchesName(h.entry[pendingInterest].interest, name)
  THEN [ h       |-> Heap(pop(h.table, i),
                          [h.entry EXCEPT ![pendingInterest] = setIsRemoved(@)]),
         entries |-> <<pendingInterest>> \o entries,
         i       |-> i - 1 ]
  ELSE [ h |-> h, entries |-> entries, i |-> i - 1 ]

\* One iteration of the loop of extractEntriesForExpressedInterest at index
\* i: the state after the body and the decrement of i.
extractBody(h, name, entries, i) ==
  LET pendingInterest == h.table[i + 1] IN
  IF matchesName(h.entry[pendingInterest].interest, name)
  THEN [ h       |-> Heap(pop(h.table, i),
                          [h.entry EXCEPT ![pendingInterest] = setIsRemoved(@)]),
         entries |-> Append(entries, pendingInterest),
         i       |-> i - 1 ]
  ELSE [ h |-> h, entries |-> entries, i |-> i - 1 ]

RECURSIVE extractWhile(_, _, _, _)
extractWhile(h, name, entries, i) ==
  IF i >= 0
  THEN LET s == extractBody(h, name, entries, i)
       IN  extractWhile(s.h, name, s.entries, s.i)
  ELSE [ h |-> h, entries |-> entries ]

\* extractEntriesForExpressedInterest(name, entries)
extractEntriesForExpressedInterest(h, name, entries) ==
  extractWhile(h, name, entries, Len(h.table) - 1)

\* removeBody without the call of setIsRemoved.
removeBodyNoFlag(h, pendingInterestId, count, i) ==
  LET e == h.table[i + 1] IN
  IF h.entry[e].pendingInterestId = pendingInterestId
  THEN [ h |-> Heap(pop(h.table, i), h.entry), count |-> count + 1, i |-> i - 1 ]
  ELSE [ h |-> h, count |-> count, i |-> i - 1 ]

\* removeBody with a `break` after the first entry found.
removeBodyBreak(h, pendingInterestId, count, i) ==
  LET e == h.table[i + 1] IN
  IF h.entry[e].pendingInterestId = pendingInterestId
  THEN [ h     |-> Heap(pop(h.table, i),
                        [h.entry EXCEPT ![e] = setIsRemoved(@)]),
         count |-> count + 1,
         i     |-> -1 ]
  ELSE [ h |-> h, count |-> count, i |-> i - 1 ]

\* One iteration of the loop of removePendingInterest at index i.
removeBody(h, pendingInterestId, count, i) ==
  LET e == h.table[i + 1] IN
  IF h.entry[e].pendingInterestId = pendingInterestId
  THEN [ h     |-> Heap(pop(h.table, i),
                        [h.entry EXCEPT ![e] = setIsRemoved(@)]),
         count |-> count + 1,
         i     |-> i - 1 ]
  ELSE [ h |-> h, count |-> count, i |-> i - 1 ]

RECURSIVE removeWhile(_, _, _, _)
removeWhile(h, pendingInterestId, count, i) ==
  IF i >= 0
  THEN LET s == removeBody(h, pendingInterestId, count, i)
       IN  removeWhile(s.h, pendingInterestId, s.count, s.i)
  ELSE [ h |-> h, count |-> count ]

\* The statement under `if count == 0`: the argument of debug() is
\* str + pendingInterestId, and pendingInterestId is an int, so evaluating it
\* raises TypeError before anything is logged.
notFoundLog(count) == IF count = 0 THEN "TypeError" ELSE "none"

\* removePendingInterest(pendingInterestId): the heap after the call, the
\* count of removed entries and the exception that leaves the call.
removePendingInterest(h, pendingInterestId) ==
  LET r == removeWhile(h, pendingInterestId, 0, Len(h.table) - 1) IN
  [ h |-> r.h, count |-> r.count, raised |-> notFoundLog(r.count) ]

\* removeEntry without its two early returns: the flag is not looked at and
\* a ValueError of index() is passed over.
removeEntryNoCheck(h, pendingInterest) ==
  [ h   |-> Heap(IF contains(h.table, pendingInterest)
                 THEN pop(h.table, index(h.table, pendingInterest))
                 ELSE h.table,
                 [h.entry EXCEPT ![pendingInterest] = setIsRemoved(@)]),
    ret |-> TRUE ]

\* removeEntry without `del self._table[index]`.
removeEntryNoDel(h, pendingInterest) ==
  IF getIsRemoved(h.entry[pendingInterest])
  THEN [ h |-> h, ret |-> FALSE ]
  ELSE IF ~contains(h.table, pendingInterest)
  THEN [ h |-> h, ret |-> FALSE ]
  ELSE [ h   |-> Heap(h.table,
                      [h.entry EXCEPT ![pendingInterest] = setIsRemoved(@)]),
         ret |-> TRUE ]

\* removeEntry deleting the first element of the table, not the entry found.
removeEntryDelFirst(h, pendingInterest) ==
  IF getIsRemoved(h.entry[pendingInterest])
  THEN [ h |-> h, ret |-> FALSE ]
  ELSE IF ~contains(h.table, pendingInterest)
  THEN [ h |-> h, ret |-> FALSE ]
  ELSE [ h   |-> Heap(pop(h.table, 0),
                      [h.entry EXCEPT ![pendingInterest] = setIsRemoved(@)]),
         ret |-> TRUE ]

\* removeEntry(pendingInterest): the heap after the call and the value
\* returned.
removeEntry(h, pendingInterest) ==
  IF getIsRemoved(h.entry[pendingInterest])
  THEN [ h |-> h, ret |-> FALSE ]
  ELSE IF ~contains(h.table, pendingInterest)
  THEN [ h |-> h, ret |-> FALSE ]
  ELSE [ h   |-> Heap(pop(h.table, index(h.table, pendingInterest)),
                      [h.entry EXCEPT ![pendingInterest] = setIsRemoved(@)]),
         ret |-> TRUE ]

(***************************************************************************)
(* The table specification: any sequence of calls of the four operations    *)
(* of one PendingInterestTable.                                             *)
(***************************************************************************)
Refs == 1..Len(entry)

NoOp == [op |-> "none"]

Idle == [at |-> "idle", id |-> 0, name |-> << >>, onTimeout |-> FALSE]

NoTick ==
  [service |-> "none", test |-> "None", registered |-> "None",
   evaluated |-> FALSE, stop |-> FALSE, rearm |-> 0, propagated |-> FALSE,
   shutdown |-> FALSE]

\* PendingInterestTable.__init__ and ThreadsafeFace.__init__: an empty table,
\* no hand-off made, every application thread outside the face, no test, and
\* each periodic service scheduled once with call_soon on the loop, which
\* the application then runs.
Init ==
  /\ table = << >>
  /\ entry = << >>
  /\ last = NoOp
  /\ lastEntryId = 0
  /\ pc = [t \in Threads |-> Idle]
  /\ ready = << >>
  /\ timers = {}
  /\ onDataCalls = << >>
  /\ onTimeoutCalls = << >>
  /\ fate = << >>
  /\ submitted = [t \in Threads |-> 0]
  /\ executed = [t \in Threads |-> 0]
  /\ earlyCancelDone = {}
  /\ others = 0
  /\ loop = "loop"
  /\ stopWhenTest = "None"
  /\ scheduled = [stopWhen |-> 1, processEvents |-> 1]
  /\ running = TRUE
  /\ registered = "None"
  /\ shutdownCalled = FALSE
  /\ tick = NoTick

Add(pendingInterestId, interest, onTimeout) ==
  /\ Len(entry) < MaxEntries
  /\ LET h == add(Heap(table, entry), pendingInterestId, interest, onTimeout) IN
       /\ table' = h.table
       /\ entry' = h.entry
       /\ last' = [op |-> "add", id |-> pendingInterestId, ret |-> Len(h.entry)]
  /\ UNCHANGED fvars

\* The caller passes an empty list, as the method's comment asks.
Extract(name) ==
  LET r == extractEntriesForExpressedInterest(Heap(table, entry), name, << >>) IN
    /\ table' = r.h.table
    /\ entry' = r.h.entry
    /\ last' = [op |-> "extract", name |-> name, entries |-> r.entries]
    /\ UNCHANGED fvars

RemovePendingInterest(pendingInterestId) ==
  LET r == removePendingInterest(Heap(table, entry), pendingInterestId) IN
    /\ table' = r.h.table
    /\ entry' = r.h.entry
    /\ last' = [op |-> "removePendingInterest", id |-> pendingInterestId,
                count |-> r.count, raised |-> r.raised]
    /\ UNCHANGED fvars

RemoveEntry(pendingInterest) ==
  LET r == removeEntry(Heap(table, entry), pendingInterest) IN
    /\ table' = r.h.table
    /\ entry' = r.h.entry
    /\ last' = [op |-> "removeEntry", ref |-> pendingInterest, ret |-> r.ret]
    /\ UNCHANGED fvars

TNext ==
  \/ \E id \in TableIds, n \in Names, ot \in TableOnTimeout : Add(id, n, ot)
  \/ \E n \in Names : Extract(n)
  \/ \E id \in TableIds : RemovePendingInterest(id)
  \/ \E e \in Refs : RemoveEntry(e)

SpecTable == Init /\ [][TNext]_vars

(***************************************************************************)
(* The asyncio loop and the node, as far as the face uses them              *)
(***************************************************************************)
\* loop.call_soon_threadsafe(callback, *args): the callback is put at the end
\* of the loop's queue.
call_soon_threadsafe(q, cb) == Append(q, cb)

\* A queued callback: the method to run on the loop thread, its arguments,
\* and a tag saying which thread handed it off, as its how-manieth hand-off,
\* and (for a cancellation) whether the submission of the same id was still
\* queued then ("no", or by which thread: the "same" or an "other").
Callback(op, id, name, onTimeout, tag) ==
  [op |-> op, id |-> id, name |-> name, onTimeout |-> onTimeout, tag |-> tag]

Tag(t, early) == [thread |-> t, seq |-> submitted[t] + 1, early |-> early]

\* callTimeout with its test of _onTimeout inverted.
callTimeoutInverted(e) == IF ~e.onTimeout THEN 1 ELSE 0

\* Entry.callTimeout: the number of invocations of onTimeout it makes (an
\* exception of onTimeout is caught inside).
callTimeout(e) == IF e.onTimeout THEN 1 ELSE 0

\* callTimeout without its except clause.
callTimeoutErrorNoExcept(e, raises) ==
  IF e.onTimeout
  THEN IF raises THEN "propagated" ELSE "none"
  ELSE "none"

\* Entry.callTimeout, what becomes of an exception of onTimeout: the bare
\* except clause around the call logs it ("logged"); it would be
\* "propagated" if it left callTimeout.
callTimeoutError(e, raises) ==
  IF e.onTimeout
  THEN IF raises THEN "logged" ELSE "none"
  ELSE "none"

\* expressInterest running the helper in the calling thread: nothing is
\* handed off.
Face_expressInterestDirect(q, pendingInterestId, name, onTimeout, tag) == q

(***************************************************************************)
(* ThreadsafeFace: what each public method puts on the loop's queue         *)
(***************************************************************************)
Face_expressInterest(q, pendingInterestId, name, onTimeout, tag) ==
  call_soon_threadsafe(q,
    Callback("expressInterest", pendingInterestId, name, onTimeout, tag))

\* removePendingInterest putting its callback at the head of the queue.
Face_removePendingInterestFirst(q, pendingInterestId, tag) ==
  <<Callback("removePendingInterest", pendingInterestId, << >>, FALSE, tag)>> \o q

\* removePendingInterest making no hand-off.
Face_removePendingInterestDropped(q, pendingInterestId, tag) == q

Face_removePendingInterest(q, pendingInterestId, tag) ==
  call_soon_threadsafe(q,
    Callback("removePendingInterest", pendingInterestId, << >>, FALSE, tag))

Face_registerPrefix(q, registeredPrefixId, tag) ==
  call_soon_threadsafe(q,
    Callback("registerPrefix", registeredPrefixId, << >>, FALSE, tag))

Face_removeRegisteredPrefix(q, tag) ==
  call_soon_threadsafe(q, Callback("removeRegisteredPrefix", 0, << >>, FALSE, tag))

Face_setInterestFilter(q, interestFilterId, tag) ==
  call_soon_threadsafe(q,
    Callback("setInterestFilter", interestFilterId, << >>, FALSE, tag))

Face_unsetInterestFilter(q, tag) ==
  call_soon_threadsafe(q, Callback("unsetInterestFilter", 0, << >>, FALSE, tag))

Face_putData(q, tag) ==
  call_soon_threadsafe(q, Callback("putData", 0, << >>, FALSE, tag))

Face_send(q, tag) ==
  call_soon_threadsafe(q, Callback("send", 0, << >>, FALSE, tag))

(***************************************************************************)
(* Application threads                                                      *)
(***************************************************************************)
InCall == {t \in Threads : pc[t] # Idle}

Handoffs == submitted["A"] + submitted["B"] + Cardinality(InCall)

CanCall(t) == pc[t] = Idle /\ Handoffs < MaxHandoffs

CanCallOther(t) == CanCall(t) /\ others < MaxOther

SubmissionQueued(t, id) ==
  LET subs == {k \in 1..Len(ready) :
                 ready[k].op = "expressInterest" /\ ready[k].id = id} IN
  IF subs = {} THEN "no"
  ELSE IF \E k \in subs : ready[k].tag.thread = t THEN "same" ELSE "other"

\* A method that takes an id first: self._node.getNextEntryId().
Begin(t, method, name, onTimeout) ==
  /\ IF method = "expressInterest" THEN CanCall(t) ELSE CanCallOther(t)
  /\ lastEntryId' = lastEntryId + 1
  /\ pc' = [pc EXCEPT ![t] = [at |-> method, id |-> lastEntryId + 1,
                              name |-> name, onTimeout |-> onTimeout]]
  /\ UNCHANGED <<table, entry, last, ready, timers, onDataCalls,
                 onTimeoutCalls, fate, submitted, executed, earlyCancelDone, others,
                 svars>>

\* The hand-off that ends a call of a public method by thread t.
HandOff(t, q, other) ==
  /\ ready' = q
  /\ others' = others + other
  /\ submitted' = [submitted EXCEPT ![t] = @ + 1]
  /\ pc' = [pc EXCEPT ![t] = Idle]
  /\ UNCHANGED <<table, entry, last, lastEntryId, timers, onDataCalls,
                 onTimeoutCalls, fate, executed, earlyCancelDone,
                 svars>>

ExpressInterestBegin(t, name, onTimeout) ==
  Begin(t, "expressInterest", name, onTimeout)

ExpressInterestHandOff(t) ==
  /\ pc[t].at = "expressInterest"
  /\ HandOff(t, Face_expressInterest(ready, pc[t].id, pc[t].name,
                                     pc[t].onTimeout, Tag(t, "no")), 0)

RemovePendingInterestCall(t, pendingInterestId) ==
  /\ CanCall(t)
  /\ HandOff(t, Face_removePendingInterest(ready, pendingInterestId,
                  Tag(t, SubmissionQueued(t, pendingInterestId))), 0)

RegisterPrefixBegin(t) == Begin(t, "registerPrefix", << >>, FALSE)

RegisterPrefixHandOff(t) ==
  /\ pc[t].at = "registerPrefix"
  /\ HandOff(t, Face_registerPrefix(ready, pc[t].id, Tag(t, "no")), 0)

RemoveRegisteredPrefixCall(t) ==
  /\ CanCallOther(t)
  /\ HandOff(t, Face_removeRegisteredPrefix(ready, Tag(t, "no")), 1)

SetInterestFilterBegin(t) == Begin(t, "setInterestFilter", << >>, FALSE)

SetInterestFilterHandOff(t) ==
  /\ pc[t].at = "setInterestFilter"
  /\ HandOff(t, Face_setInterestFilter(ready, pc[t].id, Tag(t, "no")), 0)

UnsetInterestFilterCall(t) ==
  /\ CanCallOther(t)
  /\ HandOff(t, Face_unsetInterestFilter(ready, Tag(t, "no")), 1)

PutDataCall(t) ==
  /\ CanCallOther(t)
  /\ HandOff(t, Face_putData(ready, Tag(t, "no")), 1)

SendCall(t) ==
  /\ CanCallOther(t)
  /\ HandOff(t, Face_send(ready, Tag(t, "no")), 1)

(***************************************************************************)
(* The loop thread                                                          *)
(***************************************************************************)
\* The loop takes the callback at the head of its queue.
Take(cb) ==
  /\ running
  /\ ready' = Tail(ready)
  /\ executed' = [executed EXCEPT ![cb.tag.thread] = cb.tag.seq]

\* Occurrences of x in a list.
Occurrences(list, x) == Cardinality({k \in 1..Len(list) : list[k] = x})

\* Entries of the table before a step that are not in it after the step.
Fate(old, h, what) ==
  [e \in 1..Len(h.entry) |->
     IF e <= Len(old) /\ old[e] = "pending" /\ ~contains(h.table, e)
     THEN what
     ELSE IF e <= Len(old) THEN old[e] ELSE "pending"]

\* _expressInterestHelper on the loop thread: the node adds the entry to the
\* table and arms the one-shot timer of the interest with callLater.
RunExpressInterest ==
  /\ ready # << >>
  /\ LET cb == Head(ready) IN
    /\ Take(cb)
    /\ cb.op = "expressInterest"
    /\ LET h == add(Heap(table, entry), cb.id, cb.name, cb.onTimeout) IN
         /\ table' = h.table
         /\ entry' = h.entry
         /\ timers' = timers \cup {Len(h.entry)}
         /\ onDataCalls' = Append(onDataCalls, 0)
         /\ onTimeoutCalls' = Append(onTimeoutCalls, 0)
         /\ fate' = Append(fate, "pending")
    /\ UNCHANGED <<last, lastEntryId, pc, submitted, earlyCancelDone, others,
                 svars>>

\* Face.removePendingInterest on the loop thread; an exception that leaves
\* the callback is caught and logged by the loop.
RunRemovePendingInterest ==
  /\ ready # << >>
  /\ LET cb == Head(ready) IN
    /\ Take(cb)
    /\ cb.op = "removePendingInterest"
    /\ LET r == removePendingInterest(Heap(table, entry), cb.id) IN
         /\ table' = r.h.table
         /\ entry' = r.h.entry
         /\ fate' = Fate(fate, r.h, "cancel")
    /\ earlyCancelDone' =
         IF cb.tag.early # "no"
         THEN earlyCancelDone \cup {[id |-> cb.id, by |-> cb.tag.early]}
         ELSE earlyCancelDone
    /\ UNCHANGED <<last, lastEntryId, pc, timers, onDataCalls, onTimeoutCalls,
                   submitted, others,
                 svars>>

\* The other six methods on the loop thread: no effect on the table.
RunOther ==
  /\ ready # << >>
  /\ LET cb == Head(ready) IN
    /\ Take(cb)
    /\ cb.op \notin {"expressInterest", "removePendingInterest"}
    /\ UNCHANGED <<table, entry, last, lastEntryId, pc, timers, onDataCalls,
                   onTimeoutCalls, fate, submitted, earlyCancelDone, others,
                 svars>>

\* A data packet arrives (Node.onReceivedElement on the loop thread): the
\* matching entries are extracted and onData is called for each of them.
ReceiveData(name) ==
  LET r == extractEntriesForExpressedInterest(Heap(table, entry), name, << >>) IN
    /\ running
    /\ table' = r.h.table
    /\ entry' = r.h.entry
    /\ onDataCalls' = [e \in 1..Len(onDataCalls) |->
                         onDataCalls[e] + Occurrences(r.entries, e)]
    /\ fate' = Fate(fate, r.h, "match")
    /\ UNCHANGED <<last, lastEntryId, pc, ready, timers, onTimeoutCalls,
                   submitted, executed, earlyCancelDone, others,
                 svars>>

\* Node._processInterestTimeout(pendingInterest), the callback given to
\* callLater: callTimeout is called if removeEntry removed the entry.
processInterestTimeout(h, pendingInterest) ==
  LET r == removeEntry(h, pendingInterest) IN
  [ h |-> r.h, ret |-> r.ret,
    calls |-> IF r.ret THEN callTimeout(h.entry[pendingInterest]) ELSE 0 ]

\* The one-shot timer of an entry fires on the loop thread.
TimerFire(e) ==
  /\ running
  /\ e \in timers
  /\ timers' = timers \ {e}
  /\ LET r == processInterestTimeout(Heap(table, entry), e) IN
       /\ table' = r.h.table
       /\ entry' = r.h.entry
       /\ onTimeoutCalls' = [onTimeoutCalls EXCEPT ![e] = @ + r.calls]
       /\ fate' = Fate(fate, r.h, "timeout")
       /\ \E raises \in (IF r.calls = 1 THEN BOOLEAN ELSE {FALSE}) :
            last' = IF r.ret
                    THEN [op |-> "callTimeout",
                          onTimeout |-> entry[e].onTimeout,
                          calls |-> r.calls, raises |-> raises,
                          error |-> callTimeoutError(entry[e], raises)]
                    ELSE last
  /\ UNCHANGED <<lastEntryId, pc, ready, onDataCalls, submitted,
                 executed, earlyCancelDone, others,
                 svars>>

(***************************************************************************)
(* ThreadsafeFace: stopWhen, shutdown and the two periodic services         *)
(***************************************************************************)
\* What a test given to stopWhen does when the service calls it: it returns
\* False, returns True or raises; "None" is no test.
Tests == {"None", "false", "true", "raise"}

\* stopWhen leaving self._stopWhenTest as it is (the write left to a later
\* step).
stopWhenDeferred(old, test) == old

\* ThreadsafeFace.stopWhen(test): the value of self._stopWhenTest after it.
stopWhen(old, test) == test

\* ThreadsafeFace.shutdown: the value of self._loop after the statement
\* `self._loop == None`, a comparison whose result is dropped.
shutdown(l) == l

\* _stopWhenCallback scheduling itself again on the run that stops the loop
\* too.
stopWhenCallbackRearmOnStop(l, test) ==
  IF l # "None"
  THEN [evaluated |-> test # "None", stop |-> test = "true", rearm |-> 1,
        propagated |-> test = "raise"]
  ELSE [evaluated |-> FALSE, stop |-> FALSE, rearm |-> 0, propagated |-> FALSE]

\* _stopWhenCallback that never calls loop.stop().
stopWhenCallbackNoStop(l, test) ==
  IF l # "None"
  THEN [evaluated |-> test # "None", stop |-> FALSE, rearm |-> 1,
        propagated |-> test = "raise"]
  ELSE [evaluated |-> FALSE, stop |-> FALSE, rearm |-> 0, propagated |-> FALSE]

\* _stopWhenCallback scheduling itself again after the test, not in a finally
\* clause: an exception of the test skips it.
stopWhenCallbackNoFinally(l, test) ==
  IF l # "None"
  THEN LET stop == test # "None" /\ test = "true" IN
       [evaluated |-> test # "None",
        stop |-> stop,
        rearm |-> IF ~stop /\ test # "raise" THEN 1 ELSE 0,
        propagated |-> test = "raise"]
  ELSE [evaluated |-> FALSE, stop |-> FALSE, rearm |-> 0, propagated |-> FALSE]

\* ThreadsafeFace._stopWhenCallback: whether the test is called, whether
\* loop.stop() is called, how many times the service schedules itself again
\* and whether an exception leaves the callback (try/finally, no except).
stopWhenCallback(l, test) ==
  IF l # "None"
  THEN LET stop == test # "None" /\ test = "true" IN
       [evaluated |-> test # "None",
        stop |-> stop,
        rearm |-> IF ~stop THEN 1 ELSE 0,
        propagated |-> test = "raise"]
  ELSE [evaluated |-> FALSE, stop |-> FALSE, rearm |-> 0, propagated |-> FALSE]

\* _processEventsCallback scheduling itself again after processEvents, not in
\* a finally clause.
processEventsCallbackNoFinally(l, raises) ==
  IF l # "None"
  THEN [called |-> TRUE, rearm |-> IF raises THEN 0 ELSE 1,
        propagated |-> raises]
  ELSE [called |-> FALSE, rearm |-> 0, propagated |-> FALSE]

\* _processEventsCallback scheduling itself again both after processEvents
\* and in the finally clause.
processEventsCallbackTwice(l, raises) ==
  IF l # "None"
  THEN [called |-> TRUE, rearm |-> IF raises THEN 1 ELSE 2,
        propagated |-> raises]
  ELSE [called |-> FALSE, rearm |-> 0, propagated |-> FALSE]

\* ThreadsafeFace._processEventsCallback: whether processEvents is called,
\* how many times the service schedules itself again and whether an
\* exception of processEvents leaves the callback (try/finally, no except).
processEventsCallback(l, raises) ==
  IF l # "None"
  THEN [called |-> TRUE, rearm |-> 1, propagated |-> raises]
  ELSE [called |-> FALSE, rearm |-> 0, propagated |-> FALSE]

\* An application thread calls stopWhen(test).
StopWhenCall(t, test) ==
  /\ pc[t] = Idle
  /\ stopWhenTest' = stopWhen(stopWhenTest, test)
  /\ registered' = test
  /\ UNCHANGED <<table, entry, last, lastEntryId, pc, ready, timers,
                 onDataCalls, onTimeoutCalls, fate, submitted, executed,
                 earlyCancelDone, others, loop, scheduled, running,
                 shutdownCalled, tick>>

\* An application thread calls shutdown().
ShutdownCall(t) ==
  /\ pc[t] = Idle
  /\ loop' = shutdown(loop)
  /\ shutdownCalled' = TRUE
  /\ UNCHANGED <<table, entry, last, lastEntryId, pc, ready, timers,
                 onDataCalls, onTimeoutCalls, fate, submitted, executed,
                 earlyCancelDone, others, stopWhenTest, scheduled, running,
                 registered, tick>>

\* The loop runs a scheduled invocation of _stopWhenCallback.
StopWhenCallbackRun ==
  /\ running
  /\ scheduled.stopWhen > 0
  /\ LET r == stopWhenCallback(loop, stopWhenTest) IN
       /\ scheduled' = [scheduled EXCEPT !.stopWhen = @ - 1 + r.rearm]
       /\ running' = IF r.stop THEN FALSE ELSE running
       /\ tick' = [service |-> "stopWhen", test |-> stopWhenTest,
                   registered |-> registered, evaluated |-> r.evaluated,
                   stop |-> r.stop, rearm |-> r.rearm,
                   propagated |-> r.propagated, shutdown |-> shutdownCalled]
  /\ UNCHANGED <<table, entry, last, lastEntryId, pc, ready, timers,
                 onDataCalls, onTimeoutCalls, fate, submitted, executed,
                 earlyCancelDone, others, loop, stopWhenTest, registered,
                 shutdownCalled>>

\* The loop runs a scheduled invocation of _processEventsCallback;
\* processEvents may raise.
ProcessEventsCallbackRun(raises) ==
  /\ running
  /\ scheduled.processEvents > 0
  /\ LET r == processEventsCallback(loop, raises) IN
       /\ scheduled' = [scheduled EXCEPT !.processEvents = @ - 1 + r.rearm]
       /\ tick' = [service |-> "processEvents", test |-> "None",
                   registered |-> registered, evaluated |-> r.called,
                   stop |-> FALSE, rearm |-> r.rearm,
                   propagated |-> r.propagated, shutdown |-> shutdownCalled]
  /\ UNCHANGED <<table, entry, last, lastEntryId, pc, ready, timers,
                 onDataCalls, onTimeoutCalls, fate, submitted, executed,
                 earlyCancelDone, others, loop, stopWhenTest, running,
                 registered, shutdownCalled>>

\* The application starts the loop, or starts it again after a stop():
\* loop.run_forever().
RunForever ==
  /\ ~running
  /\ running' = TRUE
  /\ UNCHANGED <<table, entry, last, lastEntryId, pc, ready, timers,
                 onDataCalls, onTimeoutCalls, fate, submitted, executed,
                 earlyCancelDone, others, loop, stopWhenTest, scheduled,
                 registered, shutdownCalled, tick>>

Next ==
  \/ \E t \in Threads, n \in FaceNames, ot \in BOOLEAN :
       ExpressInterestBegin(t, n, ot)
  \/ \E t \in Threads : ExpressInterestHandOff(t)
  \/ \E t \in Threads, id \in 1..lastEntryId : RemovePendingInterestCall(t, id)
  \/ \E t \in Threads : RegisterPrefixBegin(t)
  \/ \E t \in Threads : RegisterPrefixHandOff(t)
  \/ \E t \in Threads : RemoveRegisteredPrefixCall(t)
  \/ \E t \in Threads : SetInterestFilterBegin(t)
  \/ \E t \in Threads : SetInterestFilterHandOff(t)
  \/ \E t \in Threads : UnsetInterestFilterCall(t)
  \/ \E t \in Threads : PutDataCall(t)
  \/ \E t \in Threads : SendCall(t)
  \/ RunExpressInterest
  \/ RunRemovePendingInterest
  \/ RunOther
  \/ \E n \in DataNames : ReceiveData(n)
  \/ \E e \in 1..MaxHandoffs : TimerFire(e)

Spec == Init /\ [][Next]_vars

\* The loop thread keeps running its queue and its timers.
FairSpec ==
  /\ Spec
  /\ WF_vars(RunExpressInterest)
  /\ WF_vars(RunRemovePendingInterest)
  /\ WF_vars(RunOther)
  /\ \A e \in 1..MaxHandoffs : WF_vars(TimerFire(e))

\* The thread that submits interests while the services are looked at.
Submitters == {"A"}

\* The face with its periodic services: stopWhen, shutdown and the two
\* services, next to submissions and their timers.
NextServices ==
  \/ \E t \in Threads, test \in Tests : StopWhenCall(t, test)
  \/ \E t \in Threads : ShutdownCall(t)
  \/ StopWhenCallbackRun
  \/ \E raises \in BOOLEAN : ProcessEventsCallbackRun(raises)
  \/ RunForever
  \/ \E t \in Submitters, n \in FaceNames, ot \in BOOLEAN :
       ExpressInterestBegin(t, n, ot)
  \/ \E t \in Submitters : ExpressInterestHandOff(t)
  \/ RunExpressInterest
  \/ \E e \in 1..MaxHandoffs : TimerFire(e)

SpecServices == Init /\ [][NextServices]_vars

\* The periodic services alone, with stopWhen, shutdown and the loop being
\* run again after a stop().
NextScheduler ==
  \/ \E t \in Threads, test \in Tests : StopWhenCall(t, test)
  \/ \E t \in Threads : ShutdownCall(t)
  \/ StopWhenCallbackRun
  \/ \E raises \in BOOLEAN : ProcessEventsCallbackRun(raises)
  \/ RunForever

\* The loop, whenever it is running, runs the services scheduled on it, and
\* the application starts a loop that is not running.
FairSpecScheduler ==
  /\ Init
  /\ [][NextScheduler]_vars
  /\ WF_vars(StopWhenCallbackRun)
  /\ WF_vars(\E raises \in BOOLEAN : ProcessEventsCallbackRun(raises))
  /\ WF_vars(RunForever)

(***************************************************************************)
(* Helpers of the properties                                                *)
(***************************************************************************)
Range(seq) == {seq[k] : k \in 1..Len(seq)}

NoDuplicates(seq) == \A j, k \in 1..Len(seq) : j # k => seq[j] # seq[k]

Matching(name) == {e \in Range(table) : matchesName(entry[e].interest, name)}

WithId(id) == {e \in Range(table) : entry[e].pendingInterestId = id}

\* The table without the references of the set gone, order kept.
Without(seq, gone) == SelectSeq(seq, LAMBDA e : e \notin gone)

\* The Entry objects outside the set gone keep all their fields.
SameEntriesExcept(gone) ==
  \A e \in Refs : e \notin gone => entry'[e] = entry[e]

(***************************************************************************)
(* Properties of the table (specification SpecTable)                        *)
(***************************************************************************)
\* C1: an extraction with an empty `entries` list leaves in it exactly the
\* entries of the table whose interest matches the name, each once, and none
\* of them is in the table afterwards; the same extraction called again
\* right after gives an empty list.
C1_ExtractExactlyMatching ==
  [][ last'.op = "extract" =>
        /\ Range(last'.entries) = Matching(last'.name)
        /\ NoDuplicates(last'.entries)
        /\ \A e \in Range(last'.entries) : ~contains(table', e)
        /\ (last.op = "extract" /\ last.name = last'.name
              => last'.entries = << >>) ]_tvars

\* An extraction took two entries out and left a third one in the table.
C1_Witness ==
  /\ last.op = "extract"
  /\ Len(last.entries) = 2
  /\ Len(table) = 1

\* C2: the extracted entries are in reverse submission order (references are
\* given in the order of the add calls); entries 1, 2, 3 for /a/b, /a/c,
\* /a/b/d and the name /a/b/d give [entry 3, entry 1] and leave entry 2.
C2_ReverseSubmissionOrder ==
  [][ last'.op = "extract" =>
        /\ \A j, k \in 1..Len(last'.entries) :
             j < k => last'.entries[j] > last'.entries[k]
        /\ ( /\ table = <<1, 2, 3>>
             /\ entry[1].interest = <<"a", "b">>
             /\ entry[2].interest = <<"a", "c">>
             /\ entry[3].interest = <<"a", "b", "d">>
             /\ last'.name = <<"a", "b", "d">>
             => last'.entries = <<3, 1>> /\ table' = <<2>> ) ]_tvars

\* The scenario of C2 after its extraction.
C2_Witness ==
  /\ last.op = "extract"
  /\ last.name = <<"a", "b", "d">>
  /\ last.entries = <<3, 1>>
  /\ table = <<2>>
  /\ entry[1].interest = <<"a", "b">>
  /\ entry[2].interest = <<"a", "c">>
  /\ entry[3].interest = <<"a", "b", "d">>

\* C3: an entry made by add has its isRemoved flag set exactly when it is not
\* in the table.
C3_RemovedIffAbsent ==
  \A e \in Refs : getIsRemoved(entry[e]) <=> ~contains(table, e)

\* Two entries were taken out, the last one by a cancellation, and one is
\* still in the table.
C3_Witness ==
  /\ last.op \in {"removePendingInterest", "removeEntry"}
  /\ Len(table) = 1
  /\ Cardinality({e \in Refs : getIsRemoved(entry[e])}) = 2

\* C4: removeEntry on an entry in the table returns true and takes exactly
\* that entry out; on an entry no longer in the table (removed before by
\* removeEntry, by an extraction or by id) it returns false and changes
\* nothing; a set flag is never cleared, so true is returned once per entry.
C4_RemoveEntryIdempotent ==
  [][ /\ \A e \in Refs : getIsRemoved(entry[e]) => getIsRemoved(entry'[e])
      /\ last'.op = "removeEntry" =>
           IF contains(table, last'.ref)
           THEN /\ last'.ret = TRUE
                /\ Len(table') = Len(table) - 1
                /\ table' = Without(table, {last'.ref})
                /\ getIsRemoved(entry'[last'.ref])
           ELSE /\ last'.ret = FALSE
                /\ table' = table
                /\ entry' = entry ]_tvars

\* removeEntry was called on an entry already removed, and returned false.
C4_Witness ==
  /\ last.op = "removeEntry"
  /\ last.ret = FALSE
  /\ getIsRemoved(entry[last.ref])
  /\ Len(table) >= 1

\* C5: removePendingInterest(id) takes every entry with that id out of the
\* table and sets its flag; the other entries stay, in order, unchanged.
C5_RemoveEveryEntryWithId ==
  [][ last'.op = "removePendingInterest" =>
        /\ table' = Without(table, WithId(last'.id))
        /\ \A e \in WithId(last'.id) : getIsRemoved(entry'[e])
        /\ SameEntriesExcept(WithId(last'.id))
        /\ last'.count = Cardinality(WithId(last'.id)) ]_tvars

\* Two entries with the same id were removed by one call, and an entry with
\* another id and the same interest name as one of them stays, flag clear.
C5_Witness ==
  /\ last.op = "removePendingInterest"
  /\ last.count = 2
  /\ \E e \in Range(table) :
       /\ entry[e].pendingInterestId # last.id
       /\ ~getIsRemoved(entry[e])
       /\ \E g \in Refs : /\ entry[g].pendingInterestId = last.id
                          /\ entry[g].interest = entry[e].interest
                          /\ getIsRemoved(entry[g])

\* C6: removePendingInterest with an id that no entry has raises nothing and
\* changes nothing.
C6_NotFoundIsNoOp ==
  [][ last'.op = "removePendingInterest" /\ WithId(last'.id) = {} =>
        /\ last'.raised = "none"
        /\ table' = table
        /\ entry' = entry ]_tvars

(***************************************************************************)
(* Properties of the face (specifications Spec and FairSpec)                *)
(***************************************************************************)
\* The entries made for an id.
EntriesOf(id) == {e \in Refs : entry[e].pendingInterestId = id}

\* C7 as stated: a cancellation that another thread queued behind the still
\* queued submission of its id has run, and so has the submission: no entry
\* of the id is in the table and neither onData nor onTimeout was ever
\* invoked for it.
C7_CancelBeforeProcessing ==
  \A c \in earlyCancelDone : \A e \in EntriesOf(c.id) :
    c.by = "other" =>
    /\ ~contains(table, e)
    /\ onDataCalls[e] = 0
    /\ onTimeoutCalls[e] = 0

\* C7, amended: once both have run no entry of the id is in the table, and
\* from then on neither onData nor onTimeout is invoked for it.
C7_CancelledThenSilent ==
  /\ [](\A c \in earlyCancelDone : \A e \in EntriesOf(c.id) :
          ~contains(table, e))
  /\ [][ \A c \in earlyCancelDone : \A e \in EntriesOf(c.id) :
           /\ onDataCalls'[e] = onDataCalls[e]
           /\ onTimeoutCalls'[e] = onTimeoutCalls[e] ]_vars

\* The submission and the cancellation that another thread queued behind it
\* have run, the timer of the cancelled entry has fired since, and its
\* onTimeout was not invoked.
C7_Witness ==
  \E c \in earlyCancelDone : \E e \in EntriesOf(c.id) :
    /\ c.by = "other"
    /\ fate[e] = "cancel"
    /\ e \notin timers
    /\ entry[e].onTimeout
    /\ onTimeoutCalls[e] = 0
    /\ onDataCalls[e] = 0

\* C8: at most one invocation of onData or onTimeout per entry, onData only
\* for a match and onTimeout only for a timeout; what took the entry out is
\* settled once; and no step acts on an entry whose flag is set.
C8_MatchCancelTimeoutExclusive ==
  /\ [](\A e \in Refs :
          /\ onDataCalls[e] + onTimeoutCalls[e] <= 1
          /\ onDataCalls[e] = 1 => fate[e] = "match"
          /\ onTimeoutCalls[e] = 1 => fate[e] = "timeout"
          /\ fate[e] # "pending" <=> getIsRemoved(entry[e]))
  /\ [][ \A e \in Refs : getIsRemoved(entry[e]) =>
           /\ onDataCalls'[e] = onDataCalls[e]
           /\ onTimeoutCalls'[e] = onTimeoutCalls[e]
           /\ fate'[e] = fate[e]
           /\ entry'[e] = entry[e] ]_vars

\* An entry with an onTimeout was matched, its onData was invoked, and its
\* timer has fired since without invoking onTimeout.
C8_Witness ==
  \E e \in Refs :
    /\ fate[e] = "match"
    /\ onDataCalls[e] = 1
    /\ entry[e].onTimeout
    /\ e \notin timers
    /\ onTimeoutCalls[e] = 0

\* What C9 and its amended form share: the timer of every entry fires; an
\* entry whose timer has fired is out of the table, by the timer unless it
\* was matched or cancelled before; onTimeout is invoked for timeouts only.
C9_TimerRemoves ==
  /\ \A e \in 1..MaxHandoffs :
       (e \in Refs) ~> (e \in Refs /\ e \notin timers)
  /\ [](\A e \in Refs :
          /\ e \notin timers =>
               ~contains(table, e) /\ fate[e] \in {"match", "cancel", "timeout"}
          /\ fate[e] # "timeout" => onTimeoutCalls[e] = 0)

\* C9 as stated: every request that is neither matched nor cancelled
\* eventually times out, and its onTimeout is invoked exactly once.
C9_TimeoutExactlyOnce ==
  /\ C9_TimerRemoves
  /\ [](\A e \in Refs : fate[e] = "timeout" => onTimeoutCalls[e] = 1)

\* C9, amended: such a request eventually times out, and its onTimeout is
\* invoked exactly once if it has one and not at all if onTimeout is None.
C9_TimeoutOnceIfGiven ==
  /\ C9_TimerRemoves
  /\ [](\A e \in Refs : fate[e] = "timeout" =>
          onTimeoutCalls[e] = (IF entry[e].onTimeout THEN 1 ELSE 0))

\* An entry was taken out by its timer and its onTimeout was invoked once,
\* and another was taken out by its timer and had no onTimeout.
C9_Witness ==
  /\ \E e \in Refs : /\ fate[e] = "timeout"
                     /\ entry[e].onTimeout
                     /\ onTimeoutCalls[e] = 1
                     /\ onDataCalls[e] = 0
  /\ \E e \in Refs : /\ fate[e] = "timeout"
                     /\ ~entry[e].onTimeout
                     /\ onTimeoutCalls[e] = 0

\* The callbacks of a thread in the loop's queue, in queue order.
QueuedBy(t) == SelectSeq(ready, LAMBDA cb : cb.tag.thread = t)

\* C10: the queued callbacks of a thread are its hand-offs not yet run, each
\* once and in the order it made them, and the loop runs them one after the
\* other in that order.
C10_HandOffsInSubmissionOrder ==
  /\ [](\A t \in Threads :
          /\ Len(QueuedBy(t)) = submitted[t] - executed[t]
          /\ \A k \in 1..Len(QueuedBy(t)) :
               QueuedBy(t)[k].tag.seq = executed[t] + k)
  /\ [][ \A t \in Threads :
           executed'[t] # executed[t] => executed'[t] = executed[t] + 1 ]_vars

\* Both hand-offs of thread A, a submission and the cancellation of its id,
\* have been run by the loop.
C10_Witness ==
  /\ executed["A"] = 2
  /\ submitted["A"] = 2
  /\ ready = << >>
  /\ \E e \in Refs : fate[e] = "cancel"

(***************************************************************************)
(* C11: the table is mutated only in steps of the loop thread. A step of   *)
(* an application thread inside one of the eight public methods either     *)
(* takes the next id and nothing else, or puts exactly one callback at the *)
(* end of the loop's queue; it leaves the table, the entries, the timers   *)
(* and the loop's progress unchanged, and the step that ends a call is     *)
(* enabled whatever the loop thread has or has not run yet.                *)
(***************************************************************************)
AppStep == pc' # pc \/ submitted' # submitted

Enqueued ==
  /\ Len(ready') = Len(ready) + 1
  /\ SubSeq(ready', 1, Len(ready)) = ready
  /\ lastEntryId' = lastEntryId

IdTaken == ready' = ready /\ lastEntryId' = lastEntryId + 1

NeverWaits ==
  \A t \in Threads :
    /\ pc[t].at = "expressInterest" => ENABLED ExpressInterestHandOff(t)
    /\ pc[t].at = "registerPrefix" => ENABLED RegisterPrefixHandOff(t)
    /\ pc[t].at = "setInterestFilter" => ENABLED SetInterestFilterHandOff(t)
    /\ CanCall(t) => ENABLED RemovePendingInterestCall(t, 1)
    /\ CanCallOther(t) =>
         /\ ENABLED RemoveRegisteredPrefixCall(t)
         /\ ENABLED UnsetInterestFilterCall(t)
         /\ ENABLED PutDataCall(t)
         /\ ENABLED SendCall(t)

C11_OnlyLoopMutatesTable ==
  /\ []NeverWaits
  /\ [][ AppStep =>
          /\ UNCHANGED <<table, entry, timers, executed, onDataCalls,
                        onTimeoutCalls, fate>>
          /\ (Enqueued \/ IdTaken) ]_vars

\* One thread has handed off a submission the loop has not run, another is
\* inside expressInterest with its id taken, and the table is still empty.
C11_Witness ==
  /\ table = << >>
  /\ entry = << >>
  /\ \E k \in 1..Len(ready) : ready[k].op = "expressInterest"
  /\ \E t \in Threads : pc[t].at = "expressInterest"

(***************************************************************************)
(* C12: after shutdown() has been called, a periodic service that runs     *)
(* does not schedule another invocation of itself: every run of            *)
(* _processEventsCallback or _stopWhenCallback that comes after the call   *)
(* of shutdown re-arms zero times.                                         *)
(***************************************************************************)
C12_ShutdownStopsServices ==
  (tick.service # "none" /\ tick.shutdown) =>
    (tick.rearm = 0 /\ scheduled[tick.service] = 0)

(***************************************************************************)
(* C13: the termination service keeps polling across a tick where the test *)
(* raises. A run of _stopWhenCallback with _loop set in which the test     *)
(* raised has scheduled exactly one next invocation, which is still        *)
(* scheduled and which a running loop can run.                             *)
(***************************************************************************)
C13_PollsAcrossRaise ==
  (tick.service = "stopWhen" /\ tick.test = "raise" /\ loop # "None") =>
    /\ tick.evaluated
    /\ tick.rearm = 1
    /\ scheduled.stopWhen = 1
    /\ running => ENABLED StopWhenCallbackRun

\* The service has just run with a raising test, after an earlier run.
C13_Witness ==
  /\ tick.service = "stopWhen"
  /\ tick.test = "raise"
  /\ tick.propagated
  /\ scheduled.stopWhen = 1
  /\ running

(***************************************************************************)
(* C14: callback failures are suppressed where the callback is called. An  *)
(* exception of onTimeout is caught and logged inside callTimeout and does *)
(* not reach its caller; callTimeout of an entry without onTimeout calls   *)
(* nothing; and an exception of the test does not leave the run of         *)
(* _stopWhenCallback that called it.                                       *)
(***************************************************************************)
TimeoutFailureSuppressed ==
  last.op = "callTimeout" =>
    /\ last.error # "propagated"
    /\ last.raises => last.error = "logged"
    /\ ~last.onTimeout => (last.calls = 0 /\ last.error = "none")

C14_CallbackFailuresSuppressed ==
  /\ TimeoutFailureSuppressed
  /\ (tick.service = "stopWhen" /\ tick.test = "raise") => ~tick.propagated

\* C14 as the code has it: an exception of onTimeout is caught and logged
\* inside callTimeout, which calls nothing when onTimeout is None; an
\* exception of the test is not caught by _stopWhenCallback: the service
\* schedules its next run in the finally clause and the exception then
\* leaves the run, to the loop.
C14_TimeoutSuppressedTestPropagates ==
  /\ TimeoutFailureSuppressed
  /\ (tick.service = "stopWhen" /\ tick.test = "raise") =>
       (tick.propagated /\ tick.rearm = 1)

\* An onTimeout has raised inside callTimeout and the test has raised inside
\* the latest run of the termination service.
C14_Witness ==
  /\ last.op = "callTimeout"
  /\ last.raises
  /\ last.error = "logged"
  /\ tick.service = "stopWhen"
  /\ tick.test = "raise"
  /\ \E e \in 1..Len(entry) : ~entry[e].onTimeout /\ fate[e] = "timeout"

(***************************************************************************)
(* C15: every run of the termination service uses the test given to the    *)
(* latest call of stopWhen; it calls the test unless it is None, and it    *)
(* calls loop.stop() exactly when the test returns True, so the loop is    *)
(* halted by a run whose test returned True and by nothing else. With the  *)
(* loop running what is scheduled on it: if from some point on the         *)
(* registered test is one that returns True, the loop is halted.           *)
(***************************************************************************)
TickUsesLatestTest ==
  tick.service = "stopWhen" =>
    /\ tick.test = tick.registered
    /\ tick.evaluated <=> tick.test # "None"
    /\ tick.stop <=> tick.test = "true"

HaltOnlyOnTrue ==
  /\ (tick' # tick /\ tick'.service = "stopWhen" /\ tick'.stop) => ~running'
  /\ (running /\ ~running') =>
       (tick'.service = "stopWhen" /\ tick'.test = "true" /\ tick'.stop)

Selected ==
  CASE last'.op = "extract" -> Matching(last'.name)
    [] last'.op = "removePendingInterest" -> WithId(last'.id)
    [] last'.op = "removeEntry" -> {last'.ref} \cap Range(table)
    [] OTHER -> {}

C16_RemovalKeepsTheRest ==
  [][ last'.op \in {"extract", "removePendingInterest", "removeEntry"} =>
        /\ table' = Without(table, Selected)
        /\ \A k \in 1..Len(table) :
             table[k] \notin Selected =>
               /\ contains(table', table[k])
               /\ entry'[table[k]] = entry[table[k]]
               /\ ~getIsRemoved(entry'[table[k]])
        /\ Len(entry') = Len(entry) ]_tvars

\* The second of three entries was removed with removeEntry: the first and
\* the third stay, in that order.
C16_Witness ==
  /\ last.op = "removeEntry"
  /\ last.ref = 2
  /\ last.ret
  /\ table = <<1, 3>>

(***************************************************************************)
(* C17: the active flag and the termination test are written by the loop   *)
(* thread only. A step of an application thread that calls stopWhen or     *)
(* shutdown leaves both self._stopWhenTest and self._loop as they were.    *)
(***************************************************************************)
StopWhenStep == registered' # registered

ShutdownStep == shutdownCalled' # shutdownCalled

C17_OnlyLoopWritesScheduler ==
  [][ (StopWhenStep \/ ShutdownStep) =>
        (stopWhenTest' = stopWhenTest /\ loop' = loop) ]_vars

\* C17 as the code has it: the step of the application thread calling
\* stopWhen writes the test itself, so the test in effect is always the one
\* given to the latest call of stopWhen, and no other step writes it: not a
\* step of the loop thread and not a call of shutdown. A call of stopWhen
\* does not write self._loop.
C17_StopWhenWritesDirectly ==
  /\ [](stopWhenTest = registered)
  /\ [][ /\ StopWhenStep =>
             /\ stopWhenTest' = registered'
             /\ loop' = loop
             /\ UNCHANGED <<tick, scheduled, ready, executed>>
         /\ stopWhenTest' # stopWhenTest => StopWhenStep
         /\ ShutdownStep => stopWhenTest' = stopWhenTest ]_vars

\* A test has been registered and is in effect although no periodic service
\* has run since the face was made, and shutdown has been called too.
C17_Witness ==
  /\ registered = "raise"
  /\ stopWhenTest = "raise"
  /\ tick.service = "none"
  /\ shutdownCalled

(***************************************************************************)
(* C18: while _loop is set, every run of _processEventsCallback calls      *)
(* processEvents and schedules exactly one further run of itself, also     *)
(* when processEvents raises; that run stays scheduled and a running loop  *)
(* can run it.                                                             *)
(***************************************************************************)
C18_EventServiceRearms ==
  (tick.service = "processEvents" /\ loop # "None") =>
    /\ tick.evaluated
    /\ tick.rearm = 1
    /\ scheduled.processEvents = 1
    /\ running => ENABLED (\E raises \in BOOLEAN :
                             ProcessEventsCallbackRun(raises))

\* processEvents raised in the latest run of the service, which is scheduled
\* again.
C18_Witness ==
  /\ tick.service = "processEvents"
  /\ tick.propagated
  /\ scheduled.processEvents = 1
  /\ running

(***************************************************************************)
(* C19: in every reachable state each periodic service has at most one     *)
(* invocation of itself scheduled and not yet run, however many times      *)
(* stopWhen, shutdown or expressInterest have been called.                 *)
(***************************************************************************)
C19_AtMostOneScheduled ==
  /\ scheduled.stopWhen \in {0, 1}
  /\ scheduled.processEvents \in {0, 1}

\* Both services have run and are scheduled once, after calls of stopWhen,
\* of shutdown and of expressInterest.
C19_Witness ==
  /\ scheduled = [stopWhen |-> 1, processEvents |-> 1]
  /\ tick.service # "none"
  /\ tick.registered # "None"
  /\ tick.shutdown
  /\ table # << >>

(***************************************************************************)
(* C20: the run of the termination service in which the test returns True  *)
(* stops the loop and does not schedule the service again; from then on    *)
(* the service is never scheduled and never runs, so no test is called any *)
(* more, whatever is registered later and even when the loop runs again.   *)
(***************************************************************************)
ServiceGone == scheduled.stopWhen = 0

====
